---- MODULE Spec2Model ----
(***************************************************************************)
(* ShardLogValidator (src/src/fuzzer_engine/log_validator.py).             *)
(*                                                                         *)
(* One validation run, validate_affected_shards(cluster_nodes, operations, *)
(* nodes_killed_by_chaos, shards_with_primary_killed), as a state machine: *)
(* the inputs and the log files are fixed by Init, and the run walks       *)
(* through _get_affected_shards, _validate_failure_detection, one          *)
(* _validate_failover per affected shard, and the construction of the      *)
(* LogValidationResult.                                                    *)
(*                                                                         *)
(* Representation of Python values:                                        *)
(*   str            a tuple of '-'-free atoms: "shard-4-primary" is        *)
(*                  <<"shard","4","primary">>, "n1" is <<"n1">>, "" and    *)
(*                  None (for cluster_node_id) are <<>>                    *)
(*   Optional[int]  {} for None, {v} for the integer v                     *)
(*   a log line     [text |-> the phrase of the line, arg |-> the id or    *)
(*                  token the phrase carries (a str)]                      *)
(***************************************************************************)
EXTENDS Integers, Sequences, FiniteSets, TLC

VARIABLES cluster_nodes, operations, nodes_killed_by_chaos,
          shards_with_primary_killed, fs,
          pc, affected_shards, pending, validated, findings, result

vars == <<cluster_nodes, operations, nodes_killed_by_chaos,
          shards_with_primary_killed, fs,
          pc, affected_shards, pending, validated, findings, result>>

inputs == <<cluster_nodes, operations, nodes_killed_by_chaos,
            shards_with_primary_killed, fs>>

(***************************************************************************)
(* Bounds of the model.                                                    *)
(***************************************************************************)
MaxShard == 2       \* harness shard ids of the resolution topologies: 0..MaxShard
MaxOps == 2         \* operations per run in the resolution topologies
MaxLogLen == 2      \* lines of the enumerated logs in the failover topologies

(***************************************************************************)
(* Python values.                                                          *)
(***************************************************************************)
None == {}

Truthy(o) == o # {} /\ o # {0}

\* a or b
PyOr(a, b) == IF Truthy(a) THEN a ELSE b

Max(S) == CHOOSE x \in S : \A y \in S : y <= x

DigitChars == <<"0", "1", "2", "3", "4", "5", "6", "7", "8", "9">>

\* str(i) for an int i >= 0
RECURSIVE DecStr(_)
DecStr(i) == IF i < 10 THEN DigitChars[i + 1]
             ELSE DecStr(i \div 10) \o DigitChars[(i % 10) + 1]

str(i) == <<DecStr(i)>>

\* int(atom): {} stands for ValueError.  Decimal digits, leading zeros allowed.
MaxParsed == 9
int(atom) == LET hits == {i \in 0..MaxParsed :
                             atom = DecStr(i) \/ atom = "0" \o DecStr(i)}
             IN  IF hits = {} THEN None ELSE {Max(hits)}

\* 'shard-' in s : some atom that ends in "shard" is followed by a '-'
EndsWithShard(atom) == atom \in {"shard", "xshard"}
ContainsShardDash(s) == \E i \in 1..(Len(s) - 1) : EndsWithShard(s[i])

(***************************************************************************)
(* Affected-shard resolution (_get_affected_shards, _shard_had_failover).  *)
(***************************************************************************)
NodeAddr(node) == <<node.host, DecStr(node.port)>>     \* f"{node.host}:{node.port}"

\* dict.get(key) on {k(node): node.shard_id for node in nodes if ...}, idx the
\* positions of the nodes whose key is `key`: a later node overwrites an
\* earlier one with the same key.
DictGet(nodes, idx) ==
    IF idx = {} THEN None ELSE {nodes[Max(idx)].shard_id}

node_id_to_shard(nodes, key) ==
    DictGet(nodes, {i \in DOMAIN nodes : nodes[i].node_id = key})

port_to_shard(nodes, key) ==
    DictGet(nodes, {i \in DOMAIN nodes : str(nodes[i].port) = key})

cluster_id_to_shard(nodes, key) ==
    DictGet(nodes, {i \in DOMAIN nodes : /\ nodes[i].cluster_node_id # <<>>
                                         /\ nodes[i].cluster_node_id = key})

\* node_id_to_shard.get(t) or port_to_shard.get(t) or cluster_id_to_shard.get(t)
LookupShard(nodes, target) ==
    PyOr(node_id_to_shard(nodes, target),
         PyOr(port_to_shard(nodes, target), cluster_id_to_shard(nodes, target)))

\* A variant that forgets the test parts[0] == 'shard'.
ParseShardPatternAnyHead(target) ==
    IF Len(target) >= 3 THEN int(target[2]) ELSE None

\* The try block of the 'shard-' branch: parts = target.split('-'); the shard
\* id when len(parts) >= 3, parts[0] == 'shard' and int(parts[1]) succeeds,
\* None when the test fails or int raises ValueError.
ParseShardPattern(target) ==
    IF Len(target) >= 3 /\ target[1] = "shard" THEN int(target[2]) ELSE None

\* The shard one operation contributes to the affected set.
OpShard(nodes, op) ==
    IF ContainsShardDash(op.target_node)
    THEN ParseShardPattern(op.target_node)
    ELSE LookupShard(nodes, op.target_node)

RECURSIVE OpsShards(_, _, _)
OpsShards(nodes, ops, i) ==
    IF i > Len(ops) THEN {}
    ELSE OpShard(nodes, ops[i]) \cup OpsShards(nodes, ops, i + 1)

ChaosShards(nodes, killed) ==
    {nodes[i].shard_id : i \in {j \in DOMAIN nodes : NodeAddr(nodes[j]) \in killed}}

get_affected_shards(ops, killed, nodes) ==
    OpsShards(nodes, ops, 1) \cup ChaosShards(nodes, killed)

\* A variant that forgets `if op.type.value != 'failover': continue`.
shard_had_any_operation(shard_id, ops, nodes) ==
    \E i \in DOMAIN ops :
        IF ContainsShardDash(ops[i].target_node)
        THEN ParseShardPattern(ops[i].target_node) = {shard_id}
        ELSE LookupShard(nodes, ops[i].target_node) = {shard_id}

shard_had_failover(shard_id, ops, nodes) ==
    \E i \in DOMAIN ops :
        /\ ops[i].type = "failover"
        /\ IF ContainsShardDash(ops[i].target_node)
           THEN ParseShardPattern(ops[i].target_node) = {shard_id}
           ELSE LookupShard(nodes, ops[i].target_node) = {shard_id}

(***************************************************************************)
(* Log files and pattern matching.                                         *)
(***************************************************************************)
FailureDetectionTail == 200
ReconciliationTail == 500
FailoverTail == 200

failover_promotion_patterns ==
    <<"Failover election won",
      "configEpoch set to \\d+ after successful failover",
      "Failover auth granted">>

failover_error_patterns ==
    <<"Failover attempt expired",
      "Manual failover timed out",
      "Failover election in progress for epoch 0">>

replication_issue_patterns == <<"I'm a sub-replica! Reconfiguring myself">>

MarkingPattern == "Marking node {killed_cluster_id}.*as failing.*quorum reached"
\* The phrases of r'is now part of shard ([a-f0-9]{40})' and
\* r'Setting myself to primary in shard ([a-f0-9]{40})'
PartOfShardPhrase == "is now part of shard"
SetPrimaryPhrase == "Setting myself to primary in shard"

EmptyLine == [text |-> "", arg |-> <<>>]

\* The phrases of the modelled log lines, lower-cased (re.IGNORECASE).
CaseFold(text) ==
    CASE text = "Failover election won" -> "failover election won"
      [] text = "FAILOVER ELECTION WON" -> "failover election won"
      [] text = "configEpoch set to 7 after successful failover"
              -> "configepoch set to 7 after successful failover"
      [] text = "Failover auth granted" -> "failover auth granted"
      [] text = "Failover attempt expired" -> "failover attempt expired"
      [] text = "Manual failover timed out" -> "manual failover timed out"
      [] text = "Failover election in progress for epoch 0"
              -> "failover election in progress for epoch 0"
      [] text = "I'm a sub-replica! Reconfiguring myself"
              -> "i'm a sub-replica! reconfiguring myself"
      [] text = "Marking node as failing (quorum reached)"
              -> "marking node as failing (quorum reached)"
      [] text = "MARKING NODE AS FAILING (QUORUM REACHED)"
              -> "marking node as failing (quorum reached)"
      [] OTHER -> text

\* The lower-cased phrases a pattern finds with re.search.
Language(pattern) ==
    CASE pattern = "Failover election won" -> {"failover election won"}
      [] pattern = "configEpoch set to \\d+ after successful failover"
              -> {"configepoch set to 7 after successful failover"}
      [] pattern = "Failover auth granted" -> {"failover auth granted"}
      [] pattern = "Failover attempt expired" -> {"failover attempt expired"}
      [] pattern = "Manual failover timed out" -> {"manual failover timed out"}
      [] pattern = "Failover election in progress for epoch 0"
              -> {"failover election in progress for epoch 0"}
      [] pattern = "I'm a sub-replica! Reconfiguring myself"
              -> {"i'm a sub-replica! reconfiguring myself"}
      [] pattern = MarkingPattern -> {"marking node as failing (quorum reached)"}
      [] OTHER -> {}

\* re.compile(pattern, re.IGNORECASE).search(line), for a pattern without an id
Search(pattern, line) == CaseFold(line.text) \in Language(pattern)

\* re.compile(f"Marking node {id}.*as failing.*quorum reached", re.IGNORECASE)
SearchMarking(killed_cluster_id, line) ==
    /\ CaseFold(line.text) \in Language(MarkingPattern)
    /\ line.arg = killed_cluster_id

\* [a-f0-9]{40}
HexTokens == {<<"aaaa">>, <<"bbbb">>}

\* re.search(r'<phrase> ([a-f0-9]{40})', line): case-sensitive; the token or None
SearchToken(phrase, line) ==
    IF line.text = phrase /\ line.arg \in HexTokens THEN {line.arg} ELSE {}

\* line.strip(): the modelled lines carry no surrounding blanks
strip(line) == line

Exists(log_file) == fs[log_file].exists

\* A variant that gets the lines of a file the validator cannot read.
read_log_tail_unguarded(log_file, lines) ==
    LET f == fs[log_file]
    IN  IF Len(f.lines) > lines
        THEN SubSeq(f.lines, Len(f.lines) - lines + 1, Len(f.lines))
        ELSE f.lines

\* _read_log_tail(log_file, lines): the last `lines` lines; [] when open or
\* readlines raises.
read_log_tail(log_file, lines) ==
    LET f == fs[log_file]
    IN  IF ~f.exists \/ ~f.readable THEN <<>>
        ELSE IF Len(f.lines) > lines
             THEN SubSeq(f.lines, Len(f.lines) - lines + 1, Len(f.lines))
             ELSE f.lines

has_pattern(log_lines, pattern) ==
    \E i \in DOMAIN log_lines : Search(pattern, log_lines[i])

has_marking(log_lines, killed_cluster_id) ==
    \E i \in DOMAIN log_lines : SearchMarking(killed_cluster_id, log_lines[i])

\* _find_all_patterns: the matching lines, stripped, in order
find_all_patterns(log_lines, pattern) ==
    LET matches(line) == Search(pattern, line)
        hits == SelectSeq(log_lines, matches)
    IN  [i \in DOMAIN hits |-> strip(hits[i])]

(***************************************************************************)
(* Findings.                                                               *)
(***************************************************************************)
LogFinding(node_id, shard_id, severity, message, log_line) ==
    [node_id |-> node_id, shard_id |-> shard_id, severity |-> severity,
     message |-> message, log_line |-> log_line]

DetectionMessage == "Cluster did not detect failure of killed node (no quorum reached message found)"
NoPromotionMessage == "Primary has no failover promotion messages in recent logs"
WrongShardMessage == "Node promoted to wrong shard: expected, got"
FailoverErrorMessage == "Failover error detected"
ReplicationMessage == "Replication topology issue detected"

(***************************************************************************)
(* _validate_failure_detection                                             *)
(***************************************************************************)
\* Is the node an entry of killed_node_ids?
IsKilledWithId(nodes, killed, i) ==
    NodeAddr(nodes[i]) \in killed /\ nodes[i].cluster_node_id # <<>>

\* killed_node_ids[addr]: the cluster id of the last such node with the address
KilledClusterId(nodes, killed, addr) ==
    LET idx == {i \in DOMAIN nodes :
                   IsKilledWithId(nodes, killed, i) /\ NodeAddr(nodes[i]) = addr}
    IN  nodes[Max(idx)].cluster_node_id

\* A variant that also reads the logs of the killed nodes.
detected_in_any_log(nodes, killed, killed_cluster_id) ==
    \E j \in DOMAIN nodes :
        /\ Exists(nodes[j].log_file)
        /\ has_marking(read_log_tail(nodes[j].log_file, FailureDetectionTail),
                       killed_cluster_id)

\* The inner loop: does a surviving node's 200-line tail show the quorum line?
detected(nodes, killed, killed_cluster_id) ==
    \E j \in DOMAIN nodes :
        /\ NodeAddr(nodes[j]) \notin killed
        /\ Exists(nodes[j].log_file)
        /\ has_marking(read_log_tail(nodes[j].log_file, FailureDetectionTail),
                       killed_cluster_id)

RECURSIVE detection_from(_, _, _)
detection_from(nodes, killed, i) ==
    IF i > Len(nodes) THEN <<>>
    ELSE LET addr == NodeAddr(nodes[i])
             \* a dict keeps a key at the place of its first insertion
             first == /\ IsKilledWithId(nodes, killed, i)
                      /\ \A j \in 1..(i - 1) :
                            ~(IsKilledWithId(nodes, killed, j)
                              /\ NodeAddr(nodes[j]) = addr)
         IN  (IF first /\ ~detected(nodes, killed,
                                    KilledClusterId(nodes, killed, addr))
              THEN <<LogFinding(addr, -1, "error", <<DetectionMessage, addr>>,
                                EmptyLine)>>
              ELSE <<>>)
             \o detection_from(nodes, killed, i + 1)

validate_failure_detection(nodes, killed) ==
    IF killed = {} THEN <<>> ELSE detection_from(nodes, killed, 1)

(***************************************************************************)
(* _validate_failover                                                      *)
(***************************************************************************)
\* Pass A, one node: the token of the first 'is now part of shard' line of the
\* 500-line tail ([] when the file does not exist), or None.
FirstToken(phrase, log_lines) ==
    LET idx == {i \in DOMAIN log_lines : SearchToken(phrase, log_lines[i]) # {}}
    IN  IF idx = {} THEN None
        ELSE SearchToken(phrase, log_lines[CHOOSE i \in idx : \A j \in idx : i <= j])

FirstLine(phrase, log_lines) ==
    LET idx == {i \in DOMAIN log_lines : SearchToken(phrase, log_lines[i]) # {}}
    IN  log_lines[CHOOSE i \in idx : \A j \in idx : i <= j]

PassAToken(node) ==
    FirstToken(PartOfShardPhrase,
               IF Exists(node.log_file)
               THEN read_log_tail(node.log_file, ReconciliationTail) ELSE <<>>)

\* valkey_shard_to_our_shard.get(token)
valkey_shard_to_our_shard(affected_nodes, token) ==
    DictGet(affected_nodes,
            {i \in DOMAIN affected_nodes : PassAToken(affected_nodes[i]) = {token}})

has_promotion(log_lines) ==
    \E k \in DOMAIN failover_promotion_patterns :
        has_pattern(log_lines, failover_promotion_patterns[k])

\* A variant that reports a missing promotion as an error.
PromotionFindingsEscalated(node, affected_nodes, log_lines) ==
    IF node.role = "primary" /\ ~has_promotion(log_lines)
    THEN <<LogFinding(node.node_id, node.shard_id, "error",
                      <<NoPromotionMessage>>, EmptyLine)>>
    ELSE <<>>

\* The role == 'primary' block.
PromotionFindings(node, affected_nodes, log_lines) ==
    IF node.role # "primary" THEN <<>>
    ELSE IF ~has_promotion(log_lines)
    THEN <<LogFinding(node.node_id, node.shard_id, "warning",
                      <<NoPromotionMessage>>, EmptyLine)>>
    ELSE LET tok == FirstToken(SetPrimaryPhrase, log_lines)
         IN  IF tok = None THEN <<>>
             ELSE LET promoted_valkey_shard == CHOOSE t \in tok : TRUE
                      expected_shard_id ==
                          valkey_shard_to_our_shard(affected_nodes,
                                                    promoted_valkey_shard)
                  IN  IF expected_shard_id # None
                         /\ expected_shard_id # {node.shard_id}
                      THEN <<LogFinding(node.node_id, node.shard_id, "error",
                                 <<WrongShardMessage, node.shard_id,
                                   CHOOSE e \in expected_shard_id : TRUE>>,
                                 strip(FirstLine(SetPrimaryPhrase, log_lines)))>>
                      ELSE <<>>

\* One finding per pattern of `patterns` that matches, carrying its first match.
RECURSIVE PatternFindings(_, _, _, _, _, _)
PatternFindings(node, log_lines, patterns, k, severity, message) ==
    IF k > Len(patterns) THEN <<>>
    ELSE LET matches == find_all_patterns(log_lines, patterns[k])
         IN  (IF matches # <<>>
              THEN <<LogFinding(node.node_id, node.shard_id, severity,
                                <<message>>, matches[1])>>
              ELSE <<>>)
             \o PatternFindings(node, log_lines, patterns, k + 1, severity, message)

\* The failover-error block: only if this node's tail shows no promotion.
FailoverErrorFindings(node, log_lines) ==
    LET has_promotion_any == has_promotion(log_lines)
    IN  IF ~has_promotion_any
        THEN PatternFindings(node, log_lines, failover_error_patterns, 1,
                             "error", FailoverErrorMessage)
        ELSE <<>>

ReplicationFindings(node, log_lines) ==
    PatternFindings(node, log_lines, replication_issue_patterns, 1,
                    "warning", ReplicationMessage)

\* Pass B, one node.
NodeFindings(node, affected_nodes) ==
    IF ~Exists(node.log_file) THEN <<>>
    ELSE LET log_lines == read_log_tail(node.log_file, FailoverTail)
         IN  PromotionFindings(node, affected_nodes, log_lines)
             \o FailoverErrorFindings(node, log_lines)
             \o ReplicationFindings(node, log_lines)

RECURSIVE failover_from(_, _)
failover_from(affected_nodes, i) ==
    IF i > Len(affected_nodes) THEN <<>>
    ELSE NodeFindings(affected_nodes[i], affected_nodes)
         \o failover_from(affected_nodes, i + 1)

validate_failover(affected_nodes) == failover_from(affected_nodes, 1)

(***************************************************************************)
(* validate_affected_shards, step by step.                                 *)
(***************************************************************************)
nodes_in_shard(shard_id) ==
    LET in(n) == n.shard_id = shard_id IN SelectSeq(cluster_nodes, in)

IsError(f) == f.severity = "error"

\* A variant that fails a run on any finding.
SuccessNoFindings(fs_) == Len(fs_) = 0

\* len([f for f in findings if f.severity == 'error']) == 0
Success(fs_) == Len(SelectSeq(fs_, IsError)) = 0

\* A variant that counts only the shards whose failover was validated.
LogValidationResultValidated(fs_, affected) ==
    [success |-> Success(fs_), findings |-> fs_,
     shards_checked |-> Cardinality(validated)]

LogValidationResult(fs_, affected) ==
    [success |-> Success(fs_), findings |-> fs_,
     shards_checked |-> Cardinality(affected)]

\* affected_shards = self._get_affected_shards(...)
GetAffected ==
    /\ pc = "start"
    /\ affected_shards' = get_affected_shards(operations, nodes_killed_by_chaos,
                                              cluster_nodes)
    /\ pc' = "detect"
    /\ UNCHANGED <<inputs, pending, validated, findings, result>>

\* findings.extend(self._validate_failure_detection(...))
DetectFailures ==
    /\ pc = "detect"
    /\ findings' = findings \o validate_failure_detection(cluster_nodes,
                                                          nodes_killed_by_chaos)
    /\ pending' = affected_shards
    /\ pc' = "shards"
    /\ UNCHANGED <<inputs, affected_shards, validated, result>>

\* One iteration of `for shard_id in affected_shards` (a set: any order).
CheckShard ==
    /\ pc = "shards"
    /\ \E shard_id \in pending :
          LET had_explicit_failover ==
                  shard_had_failover(shard_id, operations, cluster_nodes)
              had_primary_killed == shard_id \in shards_with_primary_killed
          IN  /\ pending' = pending \ {shard_id}
              /\ IF had_explicit_failover \/ had_primary_killed
                 THEN /\ findings' = findings
                                     \o validate_failover(nodes_in_shard(shard_id))
                      /\ validated' = validated \cup {shard_id}
                 ELSE UNCHANGED <<findings, validated>>
    /\ UNCHANGED <<inputs, pc, affected_shards, result>>

\* success = ...; return LogValidationResult(...)
Return ==
    /\ pc = "shards"
    /\ pending = {}
    /\ result' = LogValidationResult(findings, affected_shards)
    /\ pc' = "done"
    /\ UNCHANGED <<inputs, affected_shards, pending, validated, findings>>

Next == GetAffected \/ DetectFailures \/ CheckShard \/ Return

(***************************************************************************)
(* The inputs of a run.                                                    *)
(***************************************************************************)
Host == "127.0.0.1"

NodeInfo(node_id, port, cluster_node_id, shard_id, role) ==
    [node_id |-> node_id, host |-> Host, port |-> port,
     cluster_node_id |-> cluster_node_id, shard_id |-> shard_id, role |-> role,
     log_file |-> "/logs/" \o DecStr(port) \o ".log"]

Operation(type, target_node) == [type |-> type, target_node |-> target_node]

File(lines) == [exists |-> TRUE, readable |-> TRUE, lines |-> lines]
Missing == [exists |-> FALSE, readable |-> FALSE, lines |-> <<>>]
Unreadable(lines) == [exists |-> TRUE, readable |-> FALSE, lines |-> lines]

Line(text) == [text |-> text, arg |-> <<>>]
Noise == Line("Background saving started")
Won == Line("Failover election won")
WonUpper == Line("FAILOVER ELECTION WON")
EpochSet == Line("configEpoch set to 7 after successful failover")
Expired == Line("Failover attempt expired")
TimedOut == Line("Manual failover timed out")
EpochZero == Line("Failover election in progress for epoch 0")
SubReplica == Line("I'm a sub-replica! Reconfiguring myself")
Marking(id) == [text |-> "Marking node as failing (quorum reached)", arg |-> id]
MarkingUpper(id) == [text |-> "MARKING NODE AS FAILING (QUORUM REACHED)", arg |-> id]
FailMessage(id) == [text |-> "FAIL message received about node", arg |-> id]
PartOfShard(token) == [text |-> PartOfShardPhrase, arg |-> token]
SetPrimary(token) == [text |-> SetPrimaryPhrase, arg |-> token]

Pad(n) == [i \in 1..n |-> Noise]

\* All sequences over S of length at most n
RECURSIVE SeqsUpTo(_, _)
SeqsUpTo(S, n) ==
    IF n = 0 THEN {<<>>}
    ELSE LET shorter == SeqsUpTo(S, n - 1)
         IN  shorter \cup {Append(q, x) : q \in shorter, x \in S}

Files(nodes, f1, f2, f3) ==
    (nodes[1].log_file :> f1) @@ (nodes[2].log_file :> f2)
        @@ (nodes[3].log_file :> f3)

ForeignAddr == <<"10.0.0.9", "7001">>

\* The shards-with-primary-killed hint is consistent with the killed set.
ConsistentHints(nodes, killed) == SUBSET ChaosShards(nodes, killed)

Started ==
    /\ pc = "start"
    /\ affected_shards = {}
    /\ pending = {}
    /\ validated = {}
    /\ findings = <<>>
    /\ result = <<>>

\* Resolution topologies: identifiers that collide across the three lookup
\* tables, shard ids from 0, and every shape of target.
ResolutionOps ==
    {Operation("failover", <<"n1">>),
     Operation("other", <<"7002">>),
     Operation("failover", <<"c3">>),
     Operation("failover", <<"shard", "1", "primary">>),
     Operation("other", <<"shard", "7", "primary">>),
     Operation("failover", <<"shard", "x", "primary">>),
     Operation("failover", <<"shard", "2">>),
     Operation("failover", <<"shard", "0", "primary", "x">>),
     Operation("other", <<"xshard", "1", "a">>)}

InitResolution ==
    \E id1 \in {<<"n1">>, <<"7002">>, <<"c3">>}, cid3 \in {<<"c3">>, <<"7002">>},
       s1 \in 0..MaxShard, s2 \in {0, MaxShard}, kill \in BOOLEAN :
        /\ cluster_nodes = <<NodeInfo(id1, 7001, <<"c1">>, s1, "primary"),
                             NodeInfo(<<"n2">>, 7002, <<"c2">>, s2, "primary"),
                             NodeInfo(<<"n3">>, 7003, cid3, 1, "replica")>>
        /\ operations \in SeqsUpTo(ResolutionOps, MaxOps)
        /\ nodes_killed_by_chaos =
               IF kill THEN {NodeAddr(cluster_nodes[3])} ELSE {}
        /\ shards_with_primary_killed = IF kill THEN {1} ELSE {}
        /\ fs = Files(cluster_nodes, File(<<Expired>>), File(<<SubReplica>>),
                      File(<<>>))

\* Detection topologies: which nodes were killed, and what the survivors logged.
DetectionLogs ==
    {File(<<>>), Missing, Unreadable(<<Marking(<<"c1">>)>>),
     File(<<Marking(<<"c1">>)>>), File(<<Marking(<<"c2">>)>>),
     File(<<MarkingUpper(<<"c1">>)>>), File(<<FailMessage(<<"c1">>)>>),
     File(<<Marking(<<"c1">>)>> \o Pad(FailureDetectionTail)),
     File(<<Marking(<<"c1">>)>> \o Pad(FailureDetectionTail - 1))}

InitDetection ==
    \E cid1 \in {<<"c1">>, <<>>} :
        /\ cluster_nodes = <<NodeInfo(<<"n1">>, 7001, cid1, 1, "primary"),
                             NodeInfo(<<"n2">>, 7002, <<"c2">>, 1, "replica"),
                             NodeInfo(<<"n3">>, 7003, <<"c3">>, 2, "primary")>>
        /\ operations = <<>>
        /\ nodes_killed_by_chaos \in
               SUBSET {NodeAddr(cluster_nodes[1]), NodeAddr(cluster_nodes[2]),
                       ForeignAddr}
        /\ shards_with_primary_killed \in
               ConsistentHints(cluster_nodes, nodes_killed_by_chaos)
        /\ \E f1 \in {File(<<>>), File(<<Marking(<<"c2">>)>>)},
              f2 \in DetectionLogs, f3 \in DetectionLogs :
               fs = Files(cluster_nodes, f1, f2, f3)

\* Failover topologies: what the nodes of a validated shard logged.
FailoverLines ==
    {Won, Expired, SubReplica,
     SetPrimary(<<"aaaa">>), SetPrimary(<<"bbbb">>), PartOfShard(<<"aaaa">>)}

InitFailover ==
    \E role2 \in {"primary", "replica"} :
        /\ cluster_nodes = <<NodeInfo(<<"n1">>, 7001, <<"c1">>, 1, "primary"),
                             NodeInfo(<<"n2">>, 7002, <<"c2">>, 1, role2),
                             NodeInfo(<<"n3">>, 7003, <<"c3">>, 2, "primary")>>
        /\ operations \in
               {<<Operation("failover", <<"shard", "1", "primary">>)>>,
                <<Operation("failover", <<"n3">>),
                  Operation("failover", <<"shard", "1", "primary">>)>>}
        /\ nodes_killed_by_chaos = {}
        /\ shards_with_primary_killed = {}
        /\ \E f1 \in {File(l) : l \in SeqsUpTo(FailoverLines, MaxLogLen)}
                       \cup {Missing, Unreadable(<<Won>>)},
              f2 \in {File(<<>>), Missing, File(<<Won>>), File(<<Expired, EpochZero>>),
                      File(<<PartOfShard(<<"bbbb">>), WonUpper>>),
                      File(<<Won>> \o Pad(FailoverTail)),
                      File(<<Expired>> \o Pad(FailoverTail - 1))},
              f3 \in {File(<<>>), File(<<PartOfShard(<<"bbbb">>), EpochSet>>),
                      File(<<PartOfShard(<<"bbbb">>)>> \o Pad(ReconciliationTail))} :
               fs = Files(cluster_nodes, f1, f2, f3)

\* The killed-primary scenario: six nodes in two shards, the primary of shard 1
\* killed.
InitScenario ==
    \E cid1 \in {<<"c1">>, <<>>} :
        /\ cluster_nodes = <<NodeInfo(<<"n1">>, 7001, cid1, 1, "primary"),
                             NodeInfo(<<"n2">>, 7002, <<"c2">>, 1, "replica"),
                             NodeInfo(<<"n3">>, 7003, <<"c3">>, 1, "replica"),
                             NodeInfo(<<"n4">>, 7004, <<"c4">>, 2, "primary"),
                             NodeInfo(<<"n5">>, 7005, <<"c5">>, 2, "replica"),
                             NodeInfo(<<"n6">>, 7006, <<"c6">>, 2, "replica")>>
        /\ operations = <<>>
        /\ nodes_killed_by_chaos = {NodeAddr(cluster_nodes[1])}
        /\ shards_with_primary_killed = {1}
        /\ \E f1 \in {File(<<>>), Missing, File(<<Expired>>)},
              f2 \in {File(<<>>), File(<<Won>>), File(<<Expired>>),
                      File(<<Marking(<<"c1">>)>>)},
              f3 \in {File(<<>>), File(<<Expired, TimedOut>>)},
              f4 \in {File(<<>>), File(<<Marking(<<"c1">>)>>),
                      File(<<Marking(<<"c1">>)>> \o Pad(FailureDetectionTail))},
              f5 \in {File(<<>>), File(<<FailMessage(<<"c1">>)>>)} :
               fs = Files(cluster_nodes, f1, f2, f3)
                    @@ (cluster_nodes[4].log_file :> f4)
                    @@ (cluster_nodes[5].log_file :> f5)
                    @@ (cluster_nodes[6].log_file :> File(<<SubReplica>>))

Init ==
    /\ InitResolution \/ InitDetection \/ InitFailover \/ InitScenario
    /\ Started

Spec == Init /\ [][Next]_vars

(***************************************************************************)
(* Vocabulary of the properties: the run's inputs and outputs, read        *)
(* directly.                                                               *)
(***************************************************************************)
Done == pc = "done"

Nodes == DOMAIN cluster_nodes

Killed(i) == NodeAddr(cluster_nodes[i]) \in nodes_killed_by_chaos

LogOf(i) == fs[cluster_nodes[i].log_file]

IsMissing(i) == ~LogOf(i).exists
IsUnreadable(i) == LogOf(i).exists /\ ~LogOf(i).readable
IsReadable(i) == LogOf(i).exists /\ LogOf(i).readable

\* The positions of the last n lines of node i's log, when it can be read.
TailPositions(i, n) ==
    IF IsReadable(i)
    THEN {k \in DOMAIN LogOf(i).lines : k > Len(LogOf(i).lines) - n}
    ELSE {}

PromotionTexts ==
    {"Failover election won", "FAILOVER ELECTION WON",
     "configEpoch set to 7 after successful failover", "Failover auth granted"}

FailoverErrorTexts ==
    {"Failover attempt expired", "Manual failover timed out",
     "Failover election in progress for epoch 0"}

QuorumTexts ==
    {"Marking node as failing (quorum reached)",
     "MARKING NODE AS FAILING (QUORUM REACHED)"}

TailHas(i, n, texts) ==
    \E k \in TailPositions(i, n) : LogOf(i).lines[k].text \in texts

\* Some surviving node's 200-line tail marks cluster id `id` failing by quorum.
QuorumEvidence(id) ==
    \E j \in Nodes :
        /\ ~Killed(j)
        /\ \E k \in TailPositions(j, 200) :
              /\ LogOf(j).lines[k].text \in QuorumTexts
              /\ LogOf(j).lines[k].arg = id

\* Positions of the failure-detection findings naming an address.
DetectionFindings(fnd, addr) ==
    {k \in DOMAIN fnd : fnd[k].shard_id = -1 /\ fnd[k].node_id = addr}

\* Positions of the shard-scoped findings of node i.
FindingsOf(fnd, i) ==
    {k \in DOMAIN fnd : /\ fnd[k].shard_id # -1
                        /\ fnd[k].node_id = cluster_nodes[i].node_id}

Errors(fnd) == {k \in DOMAIN fnd : fnd[k].severity = "error"}
Warnings(fnd) == {k \in DOMAIN fnd : fnd[k].severity = "warning"}

(***************************************************************************)
(* C1: the result has success = TRUE exactly when no finding has severity  *)
(* 'error'; warnings alone leave success TRUE.                             *)
(***************************************************************************)
C1_SuccessIffNoError ==
    Done => (result.success <=> Errors(result.findings) = {})

C1_Witness_WarningsOnly ==
    /\ Done
    /\ result.success
    /\ Warnings(result.findings) # {}

(***************************************************************************)
(* C2: a killed node with a known cluster id gets no failure-detection     *)
(* finding when a surviving node's 200-line tail shows the quorum line for *)
(* that id, and otherwise exactly one, an 'error' with shard_id -1 naming  *)
(* its address; killed nodes without a cluster id, and runs with nothing   *)
(* killed, get none.                                                       *)
(***************************************************************************)
C2_FailureDetection ==
    Done =>
        /\ \A i \in Nodes :
              LET det == DetectionFindings(result.findings, NodeAddr(cluster_nodes[i]))
              IN  IF Killed(i) /\ cluster_nodes[i].cluster_node_id # <<>>
                     /\ ~QuorumEvidence(cluster_nodes[i].cluster_node_id)
                  THEN /\ Cardinality(det) = 1
                       /\ \A k \in det : result.findings[k].severity = "error"
                  ELSE det = {}
        /\ \A k \in DOMAIN result.findings :
              result.findings[k].shard_id = -1 =>
                  \E i \in Nodes :
                      /\ Killed(i)
                      /\ result.findings[k].node_id = NodeAddr(cluster_nodes[i])

C2_Witness_OneDetectedOneNot ==
    /\ Done
    /\ \E i, j \in Nodes :
          /\ Killed(i) /\ Killed(j)
          /\ cluster_nodes[i].cluster_node_id # <<>>
          /\ cluster_nodes[j].cluster_node_id # <<>>
          /\ QuorumEvidence(cluster_nodes[i].cluster_node_id)
          /\ DetectionFindings(result.findings, NodeAddr(cluster_nodes[i])) = {}
          /\ Cardinality(DetectionFindings(result.findings,
                                           NodeAddr(cluster_nodes[j]))) = 1

(***************************************************************************)
(* Target resolution as the specification states it.                       *)
(***************************************************************************)
Min(S) == CHOOSE x \in S : \A y \in S : x <= y

Target(k) == operations[k].target_node

\* The target goes down the 'shard-' branch.
IsShardToken(t) == \E p \in 1..(Len(t) - 1) : t[p] \in {"shard", "xshard"}

NumericAtoms == {"0", "1", "2", "3", "4", "5", "6", "7", "8", "9"}

\* The shard a numeric atom names.
AtomValue(a) == CHOOSE n \in 0..9 : DigitChars[n + 1] = a

\* First non-null match in the order node_id, port, cluster_node_id.
PriorityShards(t) ==
    LET byId == {i \in Nodes : cluster_nodes[i].node_id = t}
        byPort == {i \in Nodes : <<DecStr(cluster_nodes[i].port)>> = t}
        byCid == {i \in Nodes : /\ cluster_nodes[i].cluster_node_id # <<>>
                                /\ cluster_nodes[i].cluster_node_id = t}
        shards(I) == {cluster_nodes[i].shard_id : i \in I}
    IN  IF byId # {} THEN shards(byId)
        ELSE IF byPort # {} THEN shards(byPort)
        ELSE shards(byCid)

\* A token 'shard-<n>-<role>...' with numeric <n> and at least three parts.
TokenAtLeast3(t) == Len(t) >= 3 /\ t[1] = "shard" /\ t[2] \in NumericAtoms

\* A token 'shard-<n>-<role>' with numeric <n> and exactly three parts.
TokenExactly3(t) == Len(t) = 3 /\ t[1] = "shard" /\ t[2] \in NumericAtoms

KilledShards == {cluster_nodes[i].shard_id : i \in {j \in Nodes : Killed(j)}}

(***************************************************************************)
(* C3: an operation whose target is not a shard-pattern token resolves to  *)
(* the shard of the node matching by node_id, else by port, else by        *)
(* cluster_node_id, for every shard id including 0, and the affected set   *)
(* holds exactly the shards so resolved (with those of the tokens and of   *)
(* the killed nodes).                                                      *)
(***************************************************************************)
C3_ResolutionPriority ==
    pc # "start" =>
        affected_shards =
            KilledShards
            \cup UNION {PriorityShards(Target(k)) :
                           k \in {x \in DOMAIN operations : ~IsShardToken(Target(x))}}
            \cup {AtomValue(Target(k)[2]) :
                     k \in {x \in DOMAIN operations : TokenAtLeast3(Target(x))}}

NoShardZero == \A i \in Nodes : cluster_nodes[i].shard_id # 0

\* C3 with no node in shard 0: the priority holds for non-zero shard ids.
C3_ResolutionPriorityNonZero == NoShardZero => C3_ResolutionPriority

\* What makes a shard-pattern token well formed: exactly three parts, or at
\* least three.
WellFormed(t, exact) == IF exact THEN TokenExactly3(t) ELSE TokenAtLeast3(t)

Accounts(k, s, exact) ==
    \/ /\ ~IsShardToken(Target(k))
       /\ \E i \in Nodes :
             /\ cluster_nodes[i].shard_id = s
             /\ \/ cluster_nodes[i].node_id = Target(k)
                \/ <<DecStr(cluster_nodes[i].port)>> = Target(k)
                \/ cluster_nodes[i].cluster_node_id = Target(k)
    \/ /\ WellFormed(Target(k), exact)
       /\ AtomValue(Target(k)[2]) = s

ShardPatternParsing(exact) ==
    /\ pc # "start" =>
          /\ \A k \in DOMAIN operations :
                WellFormed(Target(k), exact)
                    => AtomValue(Target(k)[2]) \in affected_shards
          /\ \A s \in affected_shards :
                \/ s \in KilledShards
                \/ \E k \in DOMAIN operations : Accounts(k, s, exact)
    /\ Done =>
          /\ \A s \in validated :
                \/ s \in shards_with_primary_killed
                \/ \E k \in DOMAIN operations :
                      operations[k].type = "failover" /\ Accounts(k, s, exact)
          /\ \A f \in DOMAIN result.findings :
                result.findings[f].shard_id # -1 =>
                    result.findings[f].shard_id \in validated

(***************************************************************************)
(* C4 as stated: a token 'shard-<n>-<role>' with numeric n adds shard n    *)
(* whatever the topology; a token with a non-numeric id or of any other    *)
(* arity adds no shard, so every affected shard comes from a killed node,  *)
(* a three-part numeric token or a matching non-token target.              *)
(***************************************************************************)
C4_ShardPatternParsing == ShardPatternParsing(TRUE)

(***************************************************************************)
(* C4 amended: a token with at least three parts, first part 'shard' and a *)
(* numeric second part adds that shard whatever the topology; any other    *)
(* token (non-numeric id, fewer than three parts, first part not 'shard')  *)
(* adds no shard and leads to no validation and no finding.                *)
(***************************************************************************)
C4_ShardPatternParsingAmended == ShardPatternParsing(FALSE)

C4_Witness_TokenAndMalformed ==
    /\ Done
    /\ \E k \in DOMAIN operations :
          /\ TokenAtLeast3(Target(k))
          /\ \A i \in Nodes : cluster_nodes[i].shard_id # AtomValue(Target(k)[2])
          /\ AtomValue(Target(k)[2]) \in affected_shards
    /\ \E k \in DOMAIN operations :
          /\ IsShardToken(Target(k)) /\ Len(Target(k)) = 3
          /\ Target(k)[2] \notin NumericAtoms
    /\ Cardinality(affected_shards) = 1

(***************************************************************************)
(* Log evidence of the failover checks, read from the files.               *)
(***************************************************************************)
\* The token of the first `phrase <40 hex>` line among node i's last n lines.
FirstTokenOf(i, n, phrase) ==
    LET P == {k \in TailPositions(i, n) :
                 /\ LogOf(i).lines[k].text = phrase
                 /\ LogOf(i).lines[k].arg \in HexTokens}
    IN  IF P = {} THEN {} ELSE {LogOf(i).lines[Min(P)].arg}

HasPromotion(i) == TailHas(i, 200, PromotionTexts)

FailoverErrorsOf(fnd, i) ==
    {k \in FindingsOf(fnd, i) : fnd[k].message = <<FailoverErrorMessage>>}

NoPromotionWarningsOf(fnd, i) ==
    {k \in FindingsOf(fnd, i) : fnd[k].message = <<NoPromotionMessage>>}

(***************************************************************************)
(* C5: when a validated shard holds a primary whose 200-line tail has a    *)
(* promotion line and a 'Setting myself to primary in shard <token>' line, *)
(* and the token is the one a node of another harness shard logged as      *)
(* 'is now part of shard <token>', the node gets exactly one 'error'        *)
(* finding, citing the mapped shard as expected and its own shard as       *)
(* observed, and no 'warning'.                                             *)
(***************************************************************************)
C5_WrongShardPromotion ==
    Done =>
        \A i, j \in Nodes :
            ( /\ cluster_nodes[i].shard_id \in validated
              /\ cluster_nodes[i].role = "primary"
              /\ HasPromotion(i)
              /\ FirstTokenOf(i, 200, SetPrimaryPhrase) # {}
              /\ cluster_nodes[j].shard_id # cluster_nodes[i].shard_id
              /\ FirstTokenOf(j, 500, PartOfShardPhrase)
                     = FirstTokenOf(i, 200, SetPrimaryPhrase) )
            => LET mine == FindingsOf(result.findings, i)
               IN  /\ Cardinality(mine \cap Errors(result.findings)) = 1
                   /\ mine \cap Warnings(result.findings) = {}
                   /\ \A k \in mine :
                         result.findings[k].message
                             = <<WrongShardMessage, cluster_nodes[j].shard_id,
                                 cluster_nodes[i].shard_id>>

KilledPrimaryScenario ==
    /\ Len(cluster_nodes) = 6
    /\ Cardinality({cluster_nodes[i].shard_id : i \in Nodes}) = 2
    /\ shards_with_primary_killed = {1}
    /\ \E p \in Nodes :
          /\ cluster_nodes[p].shard_id = 1
          /\ cluster_nodes[p].role = "primary"
          /\ nodes_killed_by_chaos = {NodeAddr(cluster_nodes[p])}
          /\ ~QuorumEvidence(cluster_nodes[p].cluster_node_id)
    /\ \A i \in Nodes :
          (cluster_nodes[i].shard_id = 1 /\ ~Killed(i)) => ~HasPromotion(i)

KilledIdKnown ==
    \E p \in Nodes : Killed(p) /\ cluster_nodes[p].cluster_node_id # <<>>

(***************************************************************************)
(* C6 as stated: six nodes in two shards, the primary of shard 1 killed    *)
(* and hinted, no quorum evidence in any surviving log and no promotion    *)
(* evidence in the logs of shard 1's surviving replicas: the result has    *)
(* exactly two 'error' findings and success = FALSE.  (Taken with the      *)
(* killed primary's cluster id known, so that the detection error is       *)
(* there.)                                                                 *)
(***************************************************************************)
C6_KilledPrimaryTwoErrors ==
    (Done /\ KilledPrimaryScenario /\ KilledIdKnown) =>
        /\ Cardinality(Errors(result.findings)) = 2
        /\ ~result.success

(***************************************************************************)
(* C6 amended: in that scenario the result has exactly one failure-        *)
(* detection 'error' when the killed primary's cluster id is known (none   *)
(* otherwise); promotion absence is reported as a 'warning', never as an   *)
(* 'error'; every other error is a failover-error finding carrying an      *)
(* election-expired, failover-timeout or epoch-0 line; success = FALSE     *)
(* whenever the detection error is there.                                  *)
(***************************************************************************)
C6_KilledPrimaryAmended ==
    (Done /\ KilledPrimaryScenario) =>
        LET fnd == result.findings
            det == {k \in DOMAIN fnd : fnd[k].shard_id = -1}
        IN  /\ Cardinality(det) = (IF KilledIdKnown THEN 1 ELSE 0)
            /\ det \subseteq Errors(fnd)
            /\ \A k \in DOMAIN fnd :
                  fnd[k].message = <<NoPromotionMessage>>
                      => fnd[k].severity = "warning"
            /\ \A k \in Errors(fnd) \ det :
                  /\ fnd[k].message = <<FailoverErrorMessage>>
                  /\ fnd[k].log_line.text \in FailoverErrorTexts
            /\ ( \A i \in Nodes : ~TailHas(i, 200, FailoverErrorTexts) )
                  => Errors(fnd) = det
            /\ KilledIdKnown => ~result.success

C6_Witness_OneErrorOneWarning ==
    /\ Done
    /\ KilledPrimaryScenario
    /\ KilledIdKnown
    /\ Cardinality(Errors(result.findings)) = 1
    /\ \E k \in Warnings(result.findings) :
          result.findings[k].message = <<NoPromotionMessage>>
    /\ ~result.success

(***************************************************************************)
(* C7: shards_checked is the number of affected shards, the affected set   *)
(* being the union of the shards the operations resolve to and the shards  *)
(* of the killed nodes, whatever the findings and whether or not any shard *)
(* was validated.                                                          *)
(***************************************************************************)
C7_ShardsChecked ==
    Done =>
        /\ affected_shards =
               KilledShards
               \cup UNION {OpShard(cluster_nodes, operations[k]) :
                              k \in DOMAIN operations}
        /\ result.shards_checked = Cardinality(affected_shards)

C7_Witness_UnionUnvalidated ==
    /\ Done
    /\ result.shards_checked = 3
    /\ Cardinality(KilledShards) = 1
    /\ Cardinality(validated) = 1
    /\ Len(result.findings) > 0

AsEmptyTail(i) ==
    LET mine == FindingsOf(result.findings, i)
    IN  IF cluster_nodes[i].role = "primary"
        THEN /\ Cardinality(mine) = 1
             /\ mine = NoPromotionWarningsOf(result.findings, i)
             /\ mine \subseteq Warnings(result.findings)
        ELSE mine = {}

NoEvidenceMeansError ==
    \A i \in Nodes :
        ( /\ Killed(i)
          /\ cluster_nodes[i].cluster_node_id # <<>>
          /\ \A j \in Nodes : (~Killed(j)) => ~IsReadable(j) )
        => Cardinality(DetectionFindings(result.findings,
                                         NodeAddr(cluster_nodes[i]))) = 1

(***************************************************************************)
(* C8 as stated: a node whose log is missing or cannot be read is treated  *)
(* as a node whose tail holds no matching line: in a validated shard a     *)
(* primary then gets exactly the no-promotion warning and a replica gets   *)
(* nothing, and the log gives no quorum evidence.                          *)
(***************************************************************************)
C8_UnreadableAsEmpty ==
    Done =>
        /\ \A i \in Nodes :
              (cluster_nodes[i].shard_id \in validated /\ ~IsReadable(i))
                  => AsEmptyTail(i)
        /\ NoEvidenceMeansError

(***************************************************************************)
(* C8 amended: at the end of the run, a log that exists but                *)
(* cannot be read is treated as an empty tail (a primary of a validated    *)
(* shard gets exactly the no-promotion warning, a replica nothing); a      *)
(* node whose log file is missing is skipped by the failover validation    *)
(* and gets no shard-scoped finding at all, not even the no-promotion      *)
(* warning; neither kind of log gives quorum evidence, and no finding      *)
(* reports the read failure.                                               *)
(***************************************************************************)
C8_UnreadableAmended ==
    Done =>
        /\ \A i \in Nodes :
              (cluster_nodes[i].shard_id \in validated /\ IsUnreadable(i))
                  => AsEmptyTail(i)
        /\ \A i \in Nodes : IsMissing(i) => FindingsOf(result.findings, i) = {}
        /\ NoEvidenceMeansError
        /\ \A k \in DOMAIN result.findings :
              result.findings[k].message[1] \in
                  {DetectionMessage, NoPromotionMessage, WrongShardMessage,
                   FailoverErrorMessage, ReplicationMessage}

C8_Witness_UnreadableAndMissing ==
    /\ Done
    /\ \E i, j \in Nodes :
          /\ cluster_nodes[i].shard_id \in validated
          /\ cluster_nodes[j].shard_id \in validated
          /\ cluster_nodes[i].role = "primary" /\ cluster_nodes[j].role = "primary"
          /\ IsUnreadable(i) /\ LogOf(i).lines # <<>>
          /\ IsMissing(j)
          /\ Cardinality(FindingsOf(result.findings, i)) = 1

HadExplicitFailover(s) ==
    \E k \in DOMAIN operations :
        /\ operations[k].type = "failover"
        /\ OpShard(cluster_nodes, operations[k]) = {s}

Eligible(s) == HadExplicitFailover(s) \/ s \in shards_with_primary_killed

(***************************************************************************)
(* C9: a shard-scoped finding (shard_id other than -1) appears for shard S *)
(* only if a 'failover' operation resolves to S or S is in the             *)
(* shards-with-primary-killed set, and every such shard has its nodes'     *)
(* logs validated; 'resolves' is the resolution of the affected-set        *)
(* computation, restricted to failover operations.                         *)
(***************************************************************************)
C9_FailoverGate ==
    Done =>
        /\ \A k \in DOMAIN result.findings :
              result.findings[k].shard_id # -1 => Eligible(result.findings[k].shard_id)
        /\ \A s \in validated : Eligible(s)
        /\ \A s \in affected_shards \cup shards_with_primary_killed
                    \cup {cluster_nodes[i].shard_id : i \in Nodes} :
              Eligible(s) => s \in validated

C9_Witness_GatedOut ==
    /\ Done
    /\ \E s \in affected_shards \ validated :
          \E i \in Nodes : /\ cluster_nodes[i].shard_id = s
                           /\ TailHas(i, 200, FailoverErrorTexts)
    /\ \E s \in validated : HadExplicitFailover(s) /\ s \notin shards_with_primary_killed
    /\ \E k \in DOMAIN result.findings : result.findings[k].shard_id # -1

ShardHasPromotion(s) ==
    \E i \in Nodes : cluster_nodes[i].shard_id = s /\ HasPromotion(i)

FirstErrorLine(i) ==
    LogOf(i).lines[Min({k \in TailPositions(i, 200) :
                           LogOf(i).lines[k].text \in FailoverErrorTexts})]

(***************************************************************************)
(* C10: failover-error lines are searched only if the shard's promotion    *)
(* scan found no promotion evidence anywhere in the shard; then a node     *)
(* gets at most one failover-error finding, carrying the first matched     *)
(* line; once promotion is confirmed the lines produce no finding.         *)
(***************************************************************************)
C10_FailoverErrorGate ==
    Done =>
        \A i \in Nodes :
            LET errs == FailoverErrorsOf(result.findings, i)
            IN  /\ ShardHasPromotion(cluster_nodes[i].shard_id) => errs = {}
                /\ Cardinality(errs) <= 1
                /\ \A k \in errs : result.findings[k].log_line = FirstErrorLine(i)

\* C10 as the validator behaves: the gate is the node's own tail, and a node
\* gets one finding for each failover-error pattern its tail matches.
C10_PerNodeGate ==
    Done =>
        \A i \in Nodes :
            LET errs == FailoverErrorsOf(result.findings, i)
                texts == {t \in FailoverErrorTexts : TailHas(i, 200, {t})}
            IN  /\ HasPromotion(i) => errs = {}
                /\ ( /\ cluster_nodes[i].shard_id \in validated
                     /\ LogOf(i).exists
                     /\ ~HasPromotion(i) )
                   => /\ Cardinality(errs) = Cardinality(texts)
                      /\ {result.findings[k].log_line.text : k \in errs} = texts

====
